---- MODULE Spec2Model ----
(***************************************************************************)
(* Job-shop scheduling: the greedy sequential scheduler                   *)
(* (job_shop_sequential.c) and the OpenMP round-based coordinator         *)
(* (job_shop_parallel.c), with the slot search find_available_time that   *)
(* both share.                                                             *)
(***************************************************************************)
EXTENDS Integers, Sequences, FiniteSets, TLC

(* ---------------------------------------------------------------------- *)
(* Bounds of the model                                                    *)
(* ---------------------------------------------------------------------- *)
\* largest num_jobs * num_operations of a Problem the drivers are run on
MaxOps == 4
\* largest num_machines (= num_operations, read_input_file)
MaxMachines == 2
\* largest small duration of an operation (INF is also a duration)
MaxDur == 1
\* largest thread count requested on the command line
MaxThreads == 2
\* size of the per-thread arrays (the program has 32); the stall handling is
\* run with up to that many threads
MAX_THREADS == 3
\* stall handling on its own: largest num_jobs * num_operations
MaxStallOps == 6
MaxFrameOps == 2
\* repetitions of the run in main (the programs run 10)
num_repetitions == 2
\* capacity of a trace (the programs keep 10000 entries)
MAX_LOG_ENTRIES == 4
\* thread-count clamping on its own: largest thread count requested
MaxRequested == 10
\* thread-count clamping on its own: largest small num_jobs
MaxClampJobs == 5
\* thread-count clamping on its own: a num_jobs of a large Problem
LargeJobs == 50
\* sequential scheduler on two jobs and two machines: largest small duration
MaxSeqDur == 4
\* slot search on its own: operations other than the one searched for
MaxCommitted == 2
\* slot search on its own: largest duration of an operation
FindMaxDur == 2
\* slot search on its own: largest start time of a committed operation and
\* largest earliest_start
MaxStart == 2

(* ---------------------------------------------------------------------- *)
(* Program constants                                                      *)
(* ---------------------------------------------------------------------- *)
INF == 999999
SmallProblemThreads == 8
SmallProblemOps == 100
IterationFactor == 10

VARIABLES
    prog,               \* which program runs: "sequential" or "parallel"
    num_jobs,           \* problem.num_jobs
    num_machines,       \* problem.num_machines
    jobs,               \* problem.jobs[job][op]: machine, duration, start_time
    num_threads,        \* argv[3] of the parallel program
    i,                  \* repetition index of main
    mpc,                \* position of main
    ret,                \* value returned by schedule_with_strict_division
    prev_start,         \* start times at the end of the previous repetition
    scheduled_ops,      \* per job: operations committed
    earliest_starts,    \* per job: earliest start of the next operation
    scheduled_count,    \* sequential: operations committed
    log_entries,        \* sequential trace, <<job, op>> per entry
    assigned_count,     \* parallel: operations committed
    iteration_count,    \* parallel: rounds started
    op_assigned,        \* parallel: owner thread of op_assigned[job][op]
    thread_worked,      \* parallel: per thread, committed something this run
    team,               \* threads of the current parallel region
    tpc,                \* per thread: position in the parallel region
    cur_job,            \* per thread: job index of the loop inside the region
    thread_scheduled,   \* per thread: local flag thread_scheduled
    sched_iter,         \* per thread: private copy of scheduled_this_iteration
    thread_logs,        \* per thread trace, <<job, op>> per entry
    fa                  \* one call of find_available_time, step by step

vars == << prog, num_jobs, num_machines, jobs, num_threads, i, mpc, ret,
           prev_start, scheduled_ops, earliest_starts, scheduled_count,
           log_entries, assigned_count, iteration_count, op_assigned,
           thread_worked, team, tpc, cur_job, thread_scheduled, sched_iter,
           thread_logs, fa >>

(* ---------------------------------------------------------------------- *)
(* The Problem                                                            *)
(* ---------------------------------------------------------------------- *)
num_operations == num_machines

Jobs == 0 .. num_jobs - 1

OpIds == 0 .. num_operations - 1

total_ops == num_jobs * num_operations

Max(S) == CHOOSE x \in S : \A y \in S : y <= x

Durations == (0 .. MaxDur) \cup {INF}

\* a Problem as read_input_file leaves it: machine ids in range, every
\* operation unscheduled
Problems(nj, nm, durs) ==
    [0 .. nj - 1 -> [0 .. nm - 1 ->
        [machine : 0 .. nm - 1, duration : durs, start_time : {-1}]]]

Shapes(maxops) ==
    { s \in (0 .. maxops) \X (1 .. MaxMachines) : s[1] * s[2] <= maxops }

(* ---------------------------------------------------------------------- *)
(* find_available_time                                                    *)
(* ---------------------------------------------------------------------- *)
\* faulty variant: the second comparison is made against op_end
Overlap_EndTwice(start_time, end_time, op_start, op_end) ==
    start_time < op_end /\ end_time > op_end

\* faulty variant: an operation that ends where the slot starts conflicts
Overlap_Closed(start_time, end_time, op_start, op_end) ==
    start_time <= op_end /\ end_time > op_start

\* the overlap test of the proposed slot against one committed operation
Overlap(start_time, end_time, op_start, op_end) ==
    start_time < op_end /\ end_time > op_start

\* faulty variant: the scan stops one job short
OnMachine_OneJobShort(js, machine) ==
    { p \in (0 .. num_jobs - 2) \X OpIds :
        js[p[1]][p[2]].start_time # -1 /\ js[p[1]][p[2]].machine = machine }

\* operations considered by the scan: committed and on the machine
OnMachine(js, machine) ==
    { p \in (DOMAIN js) \X OpIds :
        js[p[1]][p[2]].start_time # -1 /\ js[p[1]][p[2]].machine = machine }

\* the committed operations on the machine the proposed slot overlaps
Conflicts(js, machine, start_time, duration) ==
    { p \in OnMachine(js, machine) :
        Overlap(start_time, start_time + duration,
                js[p[1]][p[2]].start_time,
                js[p[1]][p[2]].start_time + js[p[1]][p[2]].duration) }

\* faulty variant: the next try starts one past the largest op_end
NextTry_OnePast(js, machine, start_time, duration) ==
    Max({start_time} \cup
        { js[p[1]][p[2]].start_time + js[p[1]][p[2]].duration + 1 :
            p \in Conflicts(js, machine, start_time, duration) })

\* earliest_possible after the scan: the largest op_end of a conflicting
\* operation that exceeds start_time
NextTry(js, machine, start_time, duration) ==
    Max({start_time} \cup
        { js[p[1]][p[2]].start_time + js[p[1]][p[2]].duration :
            p \in Conflicts(js, machine, start_time, duration) })

RECURSIVE find_available_time(_, _, _, _)
find_available_time(js, machine, duration, earliest_start) ==
    IF Conflicts(js, machine, earliest_start, duration) = {}
    THEN earliest_start
    ELSE find_available_time(js, machine, duration,
                             NextTry(js, machine, earliest_start, duration))

(* ---------------------------------------------------------------------- *)
(* Helpers shared by the drivers                                          *)
(* ---------------------------------------------------------------------- *)
ThreadIds == 0 .. MAX_THREADS - 1

Starts(js) == [j \in DOMAIN js |-> [o \in DOMAIN js[j] |-> js[j][o].start_time]]

\* faulty variant: only the first operation of each job is reset
reset_problem_FirstOpOnly(js) ==
    [j \in DOMAIN js |->
        [o \in DOMAIN js[j] |->
            IF o = 0 THEN [js[j][o] EXCEPT !.start_time = -1] ELSE js[j][o]]]

\* faulty variant: the reset also clears the durations
reset_problem_Durations(js) ==
    [j \in DOMAIN js |-> [o \in DOMAIN js[j] |->
        [js[j][o] EXCEPT !.start_time = -1, !.duration = 0]]]

\* reset_problem, and the reset loop of the sequential main
reset_problem(js) ==
    [j \in DOMAIN js |->
        [o \in DOMAIN js[j] |-> [js[j][o] EXCEPT !.start_time = -1]]]

\* faulty variant: one idle time unit after the operation
NextEarliest_OneLater(start_time, duration) == start_time + duration + 1

\* faulty variant: the duration is left out
NextEarliest_NoDuration(start_time, duration) == start_time

\* the earliest start of a job's next operation: the finish of the one
\* just committed
NextEarliest(start_time, duration) == start_time + duration

\* faulty variant: the largest start time instead of the largest end time
Makespan_StartsOnly(starts) ==
    LET ss == { starts[j][o] : j \in Jobs, o \in OpIds }
    IN  IF \E e \in ss : e > 0 THEN Max(ss) ELSE 0

\* makespan as write_output_file of the sequential program computes it from
\* the start times
Makespan(starts) ==
    LET ends == { starts[j][o] + jobs[j][o].duration : j \in Jobs, o \in OpIds }
    IN  IF \E e \in ends : e > 0 THEN Max(ends) ELSE 0

\* faulty variant: the capacity test lets one entry too many in
LogAppend_OnePast(log, job, op) ==
    IF Len(log) <= MAX_LOG_ENTRIES THEN Append(log, <<job, op>>) ELSE log

\* a trace drops entries once it holds MAX_LOG_ENTRIES
LogAppend(log, job, op) ==
    IF Len(log) < MAX_LOG_ENTRIES THEN Append(log, <<job, op>>) ELSE log

\* faulty variant: the comparison with total_ops is left out
effective_num_threads_NoClamp ==
    LET b == IF num_threads > SmallProblemThreads /\ total_ops < SmallProblemOps
             THEN SmallProblemThreads ELSE num_threads
    IN  IF b < 1 THEN 1 ELSE b

\* main of the parallel program: the thread count handed to the coordinator
effective_num_threads ==
    LET a == IF num_threads > total_ops THEN total_ops ELSE num_threads
        b == IF a > SmallProblemThreads /\ total_ops < SmallProblemOps
             THEN SmallProblemThreads ELSE a
    IN  IF b < 1 THEN 1 ELSE b

\* faulty variant: the cap counts jobs instead of operations
max_iterations_Jobs == num_jobs

max_iterations == total_ops * IterationFactor

NoFind == [pc |-> "off"]

(* ---------------------------------------------------------------------- *)
(* Initial states                                                         *)
(* ---------------------------------------------------------------------- *)
InitAt(rep) ==
    /\ prog \in {"sequential", "parallel"}
    /\ \E s \in Shapes(MaxOps) :
          /\ num_jobs = s[1]
          /\ num_machines = s[2]
          /\ jobs \in Problems(s[1], s[2], Durations)
    /\ num_threads \in IF prog = "parallel" THEN 1 .. MaxThreads ELSE {0}
    /\ i = rep
    /\ mpc = "loop"
    /\ ret = -1
    /\ prev_start = Starts(jobs)
    /\ scheduled_ops = [j \in Jobs |-> 0]
    /\ earliest_starts = [j \in Jobs |-> 0]
    /\ scheduled_count = 0
    /\ log_entries = << >>
    /\ assigned_count = 0
    /\ iteration_count = 0
    /\ op_assigned = [j \in Jobs |-> [o \in OpIds |-> 0]]
    /\ thread_worked = [t \in ThreadIds |-> 0]
    /\ team = 0
    /\ tpc = [t \in ThreadIds |-> "none"]
    /\ cur_job = [t \in ThreadIds |-> 0]
    /\ thread_scheduled = [t \in ThreadIds |-> 0]
    /\ sched_iter = [t \in ThreadIds |-> 0]
    /\ thread_logs = [t \in ThreadIds |-> << >>]
    /\ fa = NoFind

\* main before its first repetition
Init == InitAt(0)

\* main before its last repetition
InitLast == InitAt(num_repetitions - 1)

seqLocals == << scheduled_count, log_entries >>
parLocals == << assigned_count, iteration_count, op_assigned, thread_worked,
                team, tpc, cur_job, thread_scheduled, sched_iter, thread_logs >>
problemShape == << prog, num_jobs, num_machines, num_threads >>

(* ---------------------------------------------------------------------- *)
(* main: the repetition loop                                              *)
(* ---------------------------------------------------------------------- *)
\* one pass of the loop body up to the call of the scheduler: reset the start
\* times, clear the trace unless this is the last repetition, enter the
\* scheduler (whose locals are initialised)
MainRepetition ==
    /\ mpc = "loop"
    /\ i < num_repetitions
    /\ jobs' = reset_problem(jobs)
    /\ scheduled_ops' = [j \in Jobs |-> 0]
    /\ earliest_starts' = [j \in Jobs |-> 0]
    /\ IF prog = "sequential"
       THEN /\ log_entries' = IF i < num_repetitions - 1 THEN << >> ELSE log_entries
            /\ scheduled_count' = 0
            /\ mpc' = "seq"
            /\ UNCHANGED parLocals
       ELSE /\ thread_logs' =
                 [t \in ThreadIds |->
                     IF i < num_repetitions - 1 /\ t < effective_num_threads
                     THEN << >> ELSE thread_logs[t]]
            /\ assigned_count' = 0
            /\ iteration_count' = 0
            /\ op_assigned' =
                 [j \in Jobs |-> [o \in OpIds |-> j % effective_num_threads]]
            /\ thread_worked' = [t \in ThreadIds |-> 0]
            /\ mpc' = "coord"
            /\ UNCHANGED << seqLocals, team, tpc, cur_job, thread_scheduled,
                            sched_iter >>
    /\ UNCHANGED << problemShape, i, ret, prev_start, fa >>

\* the scheduler has returned: next repetition, or leave the loop and write
\* the result
MainNext ==
    /\ mpc = "returned"
    /\ i' = i + 1
    /\ prev_start' = Starts(jobs)
    /\ mpc' = IF i + 1 < num_repetitions THEN "loop" ELSE "saved"
    /\ UNCHANGED << problemShape, jobs, ret, scheduled_ops, earliest_starts,
                    seqLocals, parLocals, fa >>

(* ---------------------------------------------------------------------- *)
(* schedule_jobs_sequential                                               *)
(* ---------------------------------------------------------------------- *)
\* the selection scan: ascending job index, strict <, starting from 999999
RECURSIVE SelectFrom(_, _, _)
SelectFrom(job, earliest_job, earliest_time) ==
    IF job >= num_jobs THEN earliest_job
    ELSE IF scheduled_ops[job] < num_operations
            /\ earliest_starts[job] < earliest_time
         THEN SelectFrom(job + 1, job, earliest_starts[job])
         ELSE SelectFrom(job + 1, earliest_job, earliest_time)

earliest_job == SelectFrom(0, -1, INF)

\* faulty variant: the operation is committed but not counted
SeqSchedule_CountKept ==
    /\ mpc = "seq"
    /\ scheduled_count < total_ops
    /\ earliest_job # -1
    /\ LET job == earliest_job
           op == scheduled_ops[job]
           machine == jobs[job][op].machine
           duration == jobs[job][op].duration
           start_time == find_available_time(jobs, machine, duration,
                                             earliest_starts[job])
       IN  /\ jobs' = [jobs EXCEPT ![job][op].start_time = start_time]
           /\ scheduled_ops' = [scheduled_ops EXCEPT ![job] = @ + 1]
           /\ scheduled_count' = scheduled_count
           /\ earliest_starts' =
                IF scheduled_ops[job] + 1 < num_operations
                THEN [earliest_starts EXCEPT
                        ![job] = NextEarliest(start_time, duration)]
                ELSE earliest_starts
           /\ log_entries' = LogAppend(log_entries, job, op)
    /\ UNCHANGED << problemShape, i, mpc, ret, prev_start, parLocals, fa >>

\* one iteration of the while loop that commits an operation
SeqSchedule ==
    /\ mpc = "seq"
    /\ scheduled_count < total_ops
    /\ earliest_job # -1
    /\ LET job == earliest_job
           op == scheduled_ops[job]
           machine == jobs[job][op].machine
           duration == jobs[job][op].duration
           start_time == find_available_time(jobs, machine, duration,
                                             earliest_starts[job])
       IN  /\ jobs' = [jobs EXCEPT ![job][op].start_time = start_time]
           /\ scheduled_ops' = [scheduled_ops EXCEPT ![job] = @ + 1]
           /\ scheduled_count' = scheduled_count + 1
           /\ earliest_starts' =
                IF scheduled_ops[job] + 1 < num_operations
                THEN [earliest_starts EXCEPT
                        ![job] = NextEarliest(start_time, duration)]
                ELSE earliest_starts
           /\ log_entries' = LogAppend(log_entries, job, op)
    /\ UNCHANGED << problemShape, i, mpc, ret, prev_start, parLocals, fa >>

\* the while loop is left through "if (earliest_job == -1) break"
SeqBreak ==
    /\ mpc = "seq"
    /\ scheduled_count < total_ops
    /\ earliest_job = -1
    /\ mpc' = "returned"
    /\ UNCHANGED << problemShape, jobs, i, ret, prev_start, scheduled_ops,
                    earliest_starts, seqLocals, parLocals, fa >>

\* the while condition fails: every operation is counted
SeqReturn ==
    /\ mpc = "seq"
    /\ ~(scheduled_count < total_ops)
    /\ mpc' = "returned"
    /\ UNCHANGED << problemShape, jobs, i, ret, prev_start, scheduled_ops,
                    earliest_starts, seqLocals, parLocals, fa >>

(* ---------------------------------------------------------------------- *)
(* schedule_with_strict_division                                          *)
(* ---------------------------------------------------------------------- *)
Sum(f, n) ==
    LET RECURSIVE S(_)
        S(k) == IF k = 0 THEN 0 ELSE f[k - 1] + S(k - 1)
    IN  S(n)

\* faulty variant: the operation is committed at the job's earliest start,
\* without the slot search
CommitStart_NoSearch(js, es, job, op) == es[job]

\* faulty variant: the slot search starts at time 0 instead of the job's
\* earliest start
CommitStart_FromZero(js, es, job, op) ==
    find_available_time(js, js[job][op].machine, js[job][op].duration, 0)

\* commit of one operation: the slot search, the write of start_time and the
\* updates of the per-job tables (the same statements in the round body and
\* in the fallback)
CommitStart(js, es, job, op) ==
    find_available_time(js, js[job][op].machine, js[job][op].duration, es[job])

\* faulty variant: the region runs the master thread only
Fork_MasterOnly(tm) ==
    /\ mpc = "coord"
    /\ assigned_count < total_ops
    /\ iteration_count < max_iterations
    /\ iteration_count' = iteration_count + 1
    /\ team' = 1
    /\ tpc' = [t \in ThreadIds |-> IF t < 1 THEN "wait" ELSE "none"]
    /\ cur_job' = [t \in ThreadIds |-> 0]
    /\ thread_scheduled' = [t \in ThreadIds |-> 0]
    /\ sched_iter' = [t \in ThreadIds |-> 0]
    /\ mpc' = "region"
    /\ UNCHANGED << problemShape, jobs, i, ret, prev_start, scheduled_ops,
                    earliest_starts, seqLocals, assigned_count, op_assigned,
                    thread_worked, thread_logs, fa >>

\* while condition holds: start a round; the parallel region gets tm threads
Fork(tm) ==
    /\ mpc = "coord"
    /\ assigned_count < total_ops
    /\ iteration_count < max_iterations
    /\ iteration_count' = iteration_count + 1
    /\ team' = tm
    /\ tpc' = [t \in ThreadIds |-> IF t < tm THEN "wait" ELSE "none"]
    /\ cur_job' = [t \in ThreadIds |-> 0]
    /\ thread_scheduled' = [t \in ThreadIds |-> 0]
    /\ sched_iter' = [t \in ThreadIds |-> 0]
    /\ mpc' = "region"
    /\ UNCHANGED << problemShape, jobs, i, ret, prev_start, scheduled_ops,
                    earliest_starts, seqLocals, assigned_count, op_assigned,
                    thread_worked, thread_logs, fa >>

\* faulty variant: the region is entered although another thread is in it
Enter_NoExclusion(t) ==
    /\ mpc = "region"
    /\ tpc[t] = "wait"
    /\ tpc' = [tpc EXCEPT ![t] = "crit"]
    /\ cur_job' = [cur_job EXCEPT ![t] = 0]
    /\ UNCHANGED << problemShape, jobs, i, mpc, ret, prev_start, scheduled_ops,
                    earliest_starts, seqLocals, assigned_count,
                    iteration_count, op_assigned, thread_worked, team,
                    thread_scheduled, sched_iter, thread_logs, fa >>

\* a thread enters the critical region "scheduler": no other thread is in it
Enter(t) ==
    /\ mpc = "region"
    /\ tpc[t] = "wait"
    /\ \A u \in ThreadIds : tpc[u] # "crit"
    /\ tpc' = [tpc EXCEPT ![t] = "crit"]
    /\ cur_job' = [cur_job EXCEPT ![t] = 0]
    /\ UNCHANGED << problemShape, jobs, i, mpc, ret, prev_start, scheduled_ops,
                    earliest_starts, seqLocals, assigned_count,
                    iteration_count, op_assigned, thread_worked, team,
                    thread_scheduled, sched_iter, thread_logs, fa >>

\* faulty variant: after a commit the loop stays at the same job
CritStep_SameJobAgain(t) ==
    /\ mpc = "region"
    /\ tpc[t] = "crit"
    /\ cur_job[t] < num_jobs
    /\ LET job == cur_job[t]
           op == scheduled_ops[job]
       IN  IF op_assigned[job][0] = t /\ op < num_operations
           THEN LET start_time == CommitStart(jobs, earliest_starts, job, op)
                IN  /\ jobs' = [jobs EXCEPT ![job][op].start_time = start_time]
                    /\ scheduled_ops' = [scheduled_ops EXCEPT ![job] = @ + 1]
                    /\ assigned_count' = assigned_count + 1
                    /\ thread_scheduled' = [thread_scheduled EXCEPT ![t] = 1]
                    /\ sched_iter' = [sched_iter EXCEPT ![t] = @ + 1]
                    /\ earliest_starts' =
                         [earliest_starts EXCEPT
                            ![job] = NextEarliest(start_time,
                                                  jobs[job][op].duration)]
                    /\ thread_logs' =
                         [thread_logs EXCEPT ![t] = LogAppend(@, job, op)]
                    /\ cur_job' = cur_job
           ELSE /\ UNCHANGED << jobs, scheduled_ops, assigned_count,
                                thread_scheduled, sched_iter, earliest_starts,
                                thread_logs >>
                /\ cur_job' = [cur_job EXCEPT ![t] = @ + 1]
    /\ UNCHANGED << problemShape, i, mpc, ret, prev_start, seqLocals,
                    iteration_count, op_assigned, thread_worked, team, tpc, fa >>

\* one iteration of the loop over jobs inside the critical region
CritStep(t) ==
    /\ mpc = "region"
    /\ tpc[t] = "crit"
    /\ cur_job[t] < num_jobs
    /\ LET job == cur_job[t]
           op == scheduled_ops[job]
       IN  IF op_assigned[job][0] = t /\ op < num_operations
           THEN LET start_time == CommitStart(jobs, earliest_starts, job, op)
                IN  /\ jobs' = [jobs EXCEPT ![job][op].start_time = start_time]
                    /\ scheduled_ops' = [scheduled_ops EXCEPT ![job] = @ + 1]
                    /\ assigned_count' = assigned_count + 1
                    /\ thread_scheduled' = [thread_scheduled EXCEPT ![t] = 1]
                    /\ sched_iter' = [sched_iter EXCEPT ![t] = @ + 1]
                    /\ earliest_starts' =
                         [earliest_starts EXCEPT
                            ![job] = NextEarliest(start_time,
                                                  jobs[job][op].duration)]
                    /\ thread_logs' =
                         [thread_logs EXCEPT ![t] = LogAppend(@, job, op)]
           ELSE UNCHANGED << jobs, scheduled_ops, assigned_count,
                             thread_scheduled, sched_iter, earliest_starts,
                             thread_logs >>
    /\ cur_job' = [cur_job EXCEPT ![t] = @ + 1]
    /\ UNCHANGED << problemShape, i, mpc, ret, prev_start, seqLocals,
                    iteration_count, op_assigned, thread_worked, team, tpc, fa >>

\* the loop over jobs is over: the thread leaves the critical region and
\* runs "if (thread_scheduled) thread_worked[thread_id] = 1", which touches
\* only its own flag, and reaches the end of the parallel region
Leave(t) ==
    /\ mpc = "region"
    /\ tpc[t] = "crit"
    /\ cur_job[t] >= num_jobs
    /\ thread_worked' =
         IF thread_scheduled[t] = 1
         THEN [thread_worked EXCEPT ![t] = 1] ELSE thread_worked
    /\ tpc' = [tpc EXCEPT ![t] = "done"]
    /\ UNCHANGED << problemShape, jobs, i, mpc, ret, prev_start, scheduled_ops,
                    earliest_starts, seqLocals, assigned_count,
                    iteration_count, op_assigned, team, cur_job,
                    thread_scheduled, sched_iter, thread_logs, fa >>

\* faulty variant: only the master thread's copy is read, without reduction
scheduled_this_iteration_MasterOnly == sched_iter[0]

\* the reduction at the end of the parallel region
scheduled_this_iteration == Sum(sched_iter, MAX_THREADS)

\* faulty variant: the last idle thread of the scan instead of the first
IdleThread_LastFound ==
    IF \E t \in 0 .. effective_num_threads - 1 : thread_worked[t] = 0
    THEN CHOOSE t \in 0 .. effective_num_threads - 1 :
            /\ thread_worked[t] = 0
            /\ \A u \in t + 1 .. effective_num_threads - 1 : thread_worked[u] # 0
    ELSE -1

\* the first thread, in ascending scan, that has not worked yet; -1 if none
IdleThread ==
    IF \E t \in 0 .. effective_num_threads - 1 : thread_worked[t] = 0
    THEN CHOOSE t \in 0 .. effective_num_threads - 1 :
            /\ thread_worked[t] = 0
            /\ \A u \in 0 .. t - 1 : thread_worked[u] # 0
    ELSE -1

\* faulty variant: only the job's first operation changes owner
Reassigned_FirstOpOnly ==
    [j \in Jobs |->
        IF scheduled_ops[j] < num_operations /\ IdleThread # -1
        THEN [o \in OpIds |-> IF o = 0 THEN IdleThread ELSE op_assigned[j][o]]
        ELSE op_assigned[j]]

\* the redistribution loop: every job with unscheduled operations goes to the
\* idle thread, all its operations together
Reassigned ==
    [j \in Jobs |->
        IF scheduled_ops[j] < num_operations /\ IdleThread # -1
        THEN [o \in OpIds |-> IdleThread]
        ELSE op_assigned[j]]

\* faulty variant: the flag is never cleared
all_jobs_assigned_NeverCleared == TRUE

all_jobs_assigned ==
    ~ \E j \in Jobs : scheduled_ops[j] < num_operations /\ IdleThread # -1

\* the fallback: remaining operations in job-major, operation-minor order,
\* committed one after the other, logged to thread 0
RECURSIVE Fallback(_, _, _)
Fallback(st, job, op) ==
    IF job >= num_jobs THEN st
    ELSE IF op >= num_operations
         THEN Fallback(st, job + 1,
                       IF job + 1 < num_jobs THEN st.scheduled_ops[job + 1] ELSE 0)
         ELSE LET start_time == CommitStart(st.jobs, st.earliest_starts, job, op)
              IN  Fallback(
                    [jobs |-> [st.jobs EXCEPT ![job][op].start_time = start_time],
                     scheduled_ops |->
                        [st.scheduled_ops EXCEPT ![job] = @ + 1],
                     assigned_count |-> st.assigned_count + 1,
                     earliest_starts |->
                        [st.earliest_starts EXCEPT
                            ![job] = NextEarliest(start_time,
                                                  st.jobs[job][op].duration)],
                     log |-> LogAppend(st.log, job, op)],
                    job, op + 1)

\* every thread of the region is done: the coordinator reads the reduction
\* and handles a round without progress
Join ==
    /\ mpc = "region"
    /\ \A t \in 0 .. team - 1 : tpc[t] = "done"
    /\ tpc' = [t \in ThreadIds |-> "none"]
    /\ IF scheduled_this_iteration = 0
       THEN /\ op_assigned' = Reassigned
            /\ IF all_jobs_assigned
               THEN LET st == Fallback(
                                [jobs |-> jobs, scheduled_ops |-> scheduled_ops,
                                 assigned_count |-> assigned_count,
                                 earliest_starts |-> earliest_starts,
                                 log |-> thread_logs[0]],
                                0, IF num_jobs > 0 THEN scheduled_ops[0] ELSE 0)
                    IN  /\ jobs' = st.jobs
                        /\ scheduled_ops' = st.scheduled_ops
                        /\ assigned_count' = st.assigned_count
                        /\ earliest_starts' = st.earliest_starts
                        /\ thread_logs' = [thread_logs EXCEPT ![0] = st.log]
                        /\ mpc' = "verify"
               ELSE /\ mpc' = "coord"
                    /\ UNCHANGED << jobs, scheduled_ops, assigned_count,
                                    earliest_starts, thread_logs >>
       ELSE /\ mpc' = "coord"
            /\ UNCHANGED << jobs, scheduled_ops, assigned_count,
                            earliest_starts, thread_logs, op_assigned >>
    /\ UNCHANGED << problemShape, i, ret, prev_start, seqLocals,
                    iteration_count, thread_worked, team, cur_job,
                    thread_scheduled, sched_iter, fa >>

\* the while loop is over (condition false, or break): verify and return
CoordReturn ==
    /\ \/ mpc = "verify"
       \/ /\ mpc = "coord"
          /\ ~(assigned_count < total_ops /\ iteration_count < max_iterations)
    /\ ret' = IF assigned_count # total_ops THEN 0 ELSE 1
    /\ mpc' = "returned"
    /\ UNCHANGED << problemShape, jobs, i, prev_start, scheduled_ops,
                    earliest_starts, seqLocals, parLocals, fa >>

(* ---------------------------------------------------------------------- *)
(* Specifications of the two programs                                     *)
(* ---------------------------------------------------------------------- *)
\* the parallel region gets the num_threads threads it asks for
Next ==
    \/ MainRepetition
    \/ MainNext
    \/ SeqSchedule
    \/ SeqBreak
    \/ SeqReturn
    \/ Fork(effective_num_threads)
    \/ \E t \in ThreadIds : Enter(t)
    \/ \E t \in ThreadIds : CritStep(t)
    \/ \E t \in ThreadIds : Leave(t)
    \/ Join
    \/ CoordReturn

Spec == Init /\ [][Next]_vars

\* the parallel region may get fewer threads than it asks for
ForkAny == \E tm \in 1 .. effective_num_threads : Fork(tm)

NextDyn ==
    \/ MainRepetition
    \/ MainNext
    \/ SeqSchedule
    \/ SeqBreak
    \/ SeqReturn
    \/ ForkAny
    \/ \E t \in ThreadIds : Enter(t)
    \/ \E t \in ThreadIds : CritStep(t)
    \/ \E t \in ThreadIds : Leave(t)
    \/ Join
    \/ CoordReturn

\* the last repetition of main; the parallel program on durations 0 and MaxDur
InitDyn ==
    /\ InitLast
    /\ prog = "parallel" =>
          \A j \in Jobs : \A o \in OpIds : jobs[j][o].duration \in {0, MaxDur}

\* one run of either driver, the parallel regions with any team size
SpecDyn == InitDyn /\ [][NextDyn]_vars

\* one run of the parallel program on durations 0 and MaxDur, every thread of
\* a region scheduled fairly
InitPar == InitDyn /\ prog = "parallel"

NextPar ==
    \/ MainRepetition
    \/ MainNext
    \/ Fork(effective_num_threads)
    \/ \E t \in ThreadIds : Enter(t)
    \/ \E t \in ThreadIds : CritStep(t)
    \/ \E t \in ThreadIds : Leave(t)
    \/ Join
    \/ CoordReturn

SpecParFair == InitPar /\ [][NextPar]_vars /\ WF_vars(NextPar)

(* ---------------------------------------------------------------------- *)
(* The stall handling with up to MAX_THREADS threads                      *)
(* ---------------------------------------------------------------------- *)
\* one run of the parallel program on Problems of up to MaxStallOps
\* operations, operation o of every job on machine o with duration MaxDur,
\* any accepted thread count
InitStall ==
    /\ prog = "parallel"
    /\ \E s \in Shapes(MaxStallOps) :
          /\ num_jobs = s[1]
          /\ num_machines = s[2]
          /\ jobs = [j \in 0 .. s[1] - 1 |-> [o \in 0 .. s[2] - 1 |->
                       [machine |-> o, duration |-> MaxDur, start_time |-> -1]]]
    /\ num_threads \in 1 .. MAX_THREADS
    /\ i = num_repetitions - 1
    /\ mpc = "loop"
    /\ ret = -1
    /\ prev_start = Starts(jobs)
    /\ scheduled_ops = [j \in Jobs |-> 0]
    /\ earliest_starts = [j \in Jobs |-> 0]
    /\ scheduled_count = 0
    /\ log_entries = << >>
    /\ assigned_count = 0
    /\ iteration_count = 0
    /\ op_assigned = [j \in Jobs |-> [o \in OpIds |-> 0]]
    /\ thread_worked = [t \in ThreadIds |-> 0]
    /\ team = 0
    /\ tpc = [t \in ThreadIds |-> "none"]
    /\ cur_job = [t \in ThreadIds |-> 0]
    /\ thread_scheduled = [t \in ThreadIds |-> 0]
    /\ sched_iter = [t \in ThreadIds |-> 0]
    /\ thread_logs = [t \in ThreadIds |-> << >>]
    /\ fa = NoFind

\* the parallel regions with any team size
NextStall ==
    \/ MainRepetition
    \/ MainNext
    \/ ForkAny
    \/ \E t \in ThreadIds : Enter(t)
    \/ \E t \in ThreadIds : CritStep(t)
    \/ \E t \in ThreadIds : Leave(t)
    \/ Join
    \/ CoordReturn

SpecStall == InitStall /\ [][NextStall]_vars

(* ---------------------------------------------------------------------- *)
(* The critical region statement by statement                             *)
(* ---------------------------------------------------------------------- *)
\* one run of the parallel program on durations 0 and MaxDur; fa holds, per
\* thread, the slot a call of find_available_time has returned and that is
\* not written yet
InitCrit ==
    /\ prog = "parallel"
    /\ \E s \in Shapes(MaxOps) :
          /\ num_jobs = s[1]
          /\ num_machines = s[2]
          /\ jobs \in Problems(s[1], s[2], {0, MaxDur})
    /\ num_threads \in 1 .. MaxThreads
    /\ i = num_repetitions - 1
    /\ mpc = "loop"
    /\ ret = -1
    /\ prev_start = Starts(jobs)
    /\ scheduled_ops = [j \in Jobs |-> 0]
    /\ earliest_starts = [j \in Jobs |-> 0]
    /\ scheduled_count = 0
    /\ log_entries = << >>
    /\ assigned_count = 0
    /\ iteration_count = 0
    /\ op_assigned = [j \in Jobs |-> [o \in OpIds |-> 0]]
    /\ thread_worked = [t \in ThreadIds |-> 0]
    /\ team = 0
    /\ tpc = [t \in ThreadIds |-> "none"]
    /\ cur_job = [t \in ThreadIds |-> 0]
    /\ thread_scheduled = [t \in ThreadIds |-> 0]
    /\ sched_iter = [t \in ThreadIds |-> 0]
    /\ thread_logs = [t \in ThreadIds |-> << >>]
    /\ fa = [t \in ThreadIds |-> NoFind]

critShared == << problemShape, i, mpc, ret, prev_start, seqLocals,
                iteration_count, op_assigned, thread_worked, team, tpc >>

\* the job at hand is not the thread's, or is finished: next job
CritSkip(t) ==
    /\ mpc = "region"
    /\ tpc[t] = "crit"
    /\ fa[t].pc = "off"
    /\ cur_job[t] < num_jobs
    /\ ~(op_assigned[cur_job[t]][0] = t
         /\ scheduled_ops[cur_job[t]] < num_operations)
    /\ cur_job' = [cur_job EXCEPT ![t] = @ + 1]
    /\ UNCHANGED << critShared, jobs, scheduled_ops, assigned_count,
                    thread_scheduled, sched_iter, earliest_starts,
                    thread_logs, fa >>

\* the thread reads the operation and its job's earliest start and calls
\* find_available_time
CritFind(t) ==
    /\ mpc = "region"
    /\ tpc[t] = "crit"
    /\ fa[t].pc = "off"
    /\ cur_job[t] < num_jobs
    /\ op_assigned[cur_job[t]][0] = t
    /\ scheduled_ops[cur_job[t]] < num_operations
    /\ LET job == cur_job[t]
           op == scheduled_ops[job]
       IN  fa' = [fa EXCEPT ![t] =
                    [pc |-> "found", job |-> job, op |-> op,
                     start_time |-> CommitStart(jobs, earliest_starts, job, op)]]
    /\ UNCHANGED << critShared, jobs, scheduled_ops, assigned_count,
                    thread_scheduled, sched_iter, earliest_starts,
                    thread_logs, cur_job >>

\* faulty variant: after the writes the thread stays on the same job
CritWrite_StayOnJob(t) ==
    /\ mpc = "region"
    /\ tpc[t] = "crit"
    /\ fa[t].pc = "found"
    /\ LET job == fa[t].job
           op == fa[t].op
           start_time == fa[t].start_time
       IN  /\ jobs' = [jobs EXCEPT ![job][op].start_time = start_time]
           /\ scheduled_ops' = [scheduled_ops EXCEPT ![job] = @ + 1]
           /\ assigned_count' = assigned_count + 1
           /\ thread_scheduled' = [thread_scheduled EXCEPT ![t] = 1]
           /\ sched_iter' = [sched_iter EXCEPT ![t] = @ + 1]
           /\ earliest_starts' =
                [earliest_starts EXCEPT
                   ![job] = NextEarliest(start_time, jobs[job][op].duration)]
           /\ thread_logs' = [thread_logs EXCEPT ![t] = LogAppend(@, job, op)]
    /\ fa' = [fa EXCEPT ![t] = NoFind]
    /\ cur_job' = cur_job
    /\ UNCHANGED critShared

\* the thread writes start_time and updates the tables and its trace
CritWrite(t) ==
    /\ mpc = "region"
    /\ tpc[t] = "crit"
    /\ fa[t].pc = "found"
    /\ LET job == fa[t].job
           op == fa[t].op
           start_time == fa[t].start_time
       IN  /\ jobs' = [jobs EXCEPT ![job][op].start_time = start_time]
           /\ scheduled_ops' = [scheduled_ops EXCEPT ![job] = @ + 1]
           /\ assigned_count' = assigned_count + 1
           /\ thread_scheduled' = [thread_scheduled EXCEPT ![t] = 1]
           /\ sched_iter' = [sched_iter EXCEPT ![t] = @ + 1]
           /\ earliest_starts' =
                [earliest_starts EXCEPT
                   ![job] = NextEarliest(start_time, jobs[job][op].duration)]
           /\ thread_logs' = [thread_logs EXCEPT ![t] = LogAppend(@, job, op)]
    /\ fa' = [fa EXCEPT ![t] = NoFind]
    /\ cur_job' = [cur_job EXCEPT ![t] = @ + 1]
    /\ UNCHANGED critShared

NextCrit ==
    \/ MainRepetition
    \/ MainNext
    \/ Fork(effective_num_threads)
    \/ \E t \in ThreadIds : Enter(t)
    \/ \E t \in ThreadIds : CritSkip(t)
    \/ \E t \in ThreadIds : CritFind(t)
    \/ \E t \in ThreadIds : CritWrite(t)
    \/ \E t \in ThreadIds : Leave(t)
    \/ Join
    \/ CoordReturn

SpecCrit == InitCrit /\ [][NextCrit]_vars

(* ---------------------------------------------------------------------- *)
(* Both programs over all repetitions, the region statement by statement  *)
(* ---------------------------------------------------------------------- *)
\* main before its first repetition, on Problems of up to MaxFrameOps
\* operations with durations MaxDur and 999999
InitFrame ==
    /\ prog \in {"sequential", "parallel"}
    /\ \E s \in Shapes(MaxFrameOps) :
          /\ num_jobs = s[1]
          /\ num_machines = s[2]
          /\ jobs \in Problems(s[1], s[2], {MaxDur, INF})
    /\ num_threads \in IF prog = "parallel" THEN 1 .. MaxThreads ELSE {0}
    /\ i = 0
    /\ mpc = "loop"
    /\ ret = -1
    /\ prev_start = Starts(jobs)
    /\ scheduled_ops = [j \in Jobs |-> 0]
    /\ earliest_starts = [j \in Jobs |-> 0]
    /\ scheduled_count = 0
    /\ log_entries = << >>
    /\ assigned_count = 0
    /\ iteration_count = 0
    /\ op_assigned = [j \in Jobs |-> [o \in OpIds |-> 0]]
    /\ thread_worked = [t \in ThreadIds |-> 0]
    /\ team = 0
    /\ tpc = [t \in ThreadIds |-> "none"]
    /\ cur_job = [t \in ThreadIds |-> 0]
    /\ thread_scheduled = [t \in ThreadIds |-> 0]
    /\ sched_iter = [t \in ThreadIds |-> 0]
    /\ thread_logs = [t \in ThreadIds |-> << >>]
    /\ fa = [t \in ThreadIds |-> NoFind]

NextFrame ==
    \/ MainRepetition
    \/ MainNext
    \/ SeqSchedule
    \/ SeqBreak
    \/ SeqReturn
    \/ ForkAny
    \/ \E t \in ThreadIds : Enter(t)
    \/ \E t \in ThreadIds : CritSkip(t)
    \/ \E t \in ThreadIds : CritFind(t)
    \/ \E t \in ThreadIds : CritWrite(t)
    \/ \E t \in ThreadIds : Leave(t)
    \/ Join
    \/ CoordReturn

SpecFrame == InitFrame /\ [][NextFrame]_vars

(* ---------------------------------------------------------------------- *)
(* The sequential program on two jobs and two machines                    *)
(* ---------------------------------------------------------------------- *)
\* every Problem of two jobs and two machines with durations up to MaxSeqDur,
\* or 999999
InitSeq ==
    /\ prog = "sequential"
    /\ num_jobs = 2
    /\ num_machines = 2
    /\ jobs \in Problems(2, 2, (0 .. MaxSeqDur) \cup {INF})
    /\ num_threads = 0
    /\ i = 0
    /\ mpc = "loop"
    /\ ret = -1
    /\ prev_start = Starts(jobs)
    /\ scheduled_ops = [j \in Jobs |-> 0]
    /\ earliest_starts = [j \in Jobs |-> 0]
    /\ scheduled_count = 0
    /\ log_entries = << >>
    /\ assigned_count = 0
    /\ iteration_count = 0
    /\ op_assigned = [j \in Jobs |-> [o \in OpIds |-> 0]]
    /\ thread_worked = [t \in ThreadIds |-> 0]
    /\ team = 0
    /\ tpc = [t \in ThreadIds |-> "none"]
    /\ cur_job = [t \in ThreadIds |-> 0]
    /\ thread_scheduled = [t \in ThreadIds |-> 0]
    /\ sched_iter = [t \in ThreadIds |-> 0]
    /\ thread_logs = [t \in ThreadIds |-> << >>]
    /\ fa = NoFind

NextSeq ==
    \/ MainRepetition
    \/ MainNext
    \/ SeqSchedule
    \/ SeqBreak
    \/ SeqReturn

SpecSeq == InitSeq /\ [][NextSeq]_vars

(* ---------------------------------------------------------------------- *)
(* main of the parallel program up to the first call of the coordinator   *)
(* ---------------------------------------------------------------------- *)
ClampShapes ==
    ((0 .. MaxClampJobs) \cup {LargeJobs}) \X (1 .. MaxMachines)

\* any accepted thread count (argv[3] > 0) and Problems from empty to large;
\* operation o of every job on machine o, duration 0
InitClamp ==
    /\ prog = "parallel"
    /\ \E s \in ClampShapes :
          /\ num_jobs = s[1]
          /\ num_machines = s[2]
          /\ jobs = [j \in 0 .. s[1] - 1 |-> [o \in 0 .. s[2] - 1 |->
                       [machine |-> o, duration |-> 0, start_time |-> -1]]]
    /\ num_threads \in 1 .. MaxRequested
    /\ i = 0
    /\ mpc = "loop"
    /\ ret = -1
    /\ prev_start = Starts(jobs)
    /\ scheduled_ops = [j \in Jobs |-> 0]
    /\ earliest_starts = [j \in Jobs |-> 0]
    /\ scheduled_count = 0
    /\ log_entries = << >>
    /\ assigned_count = 0
    /\ iteration_count = 0
    /\ op_assigned = [j \in Jobs |-> [o \in OpIds |-> 0]]
    /\ thread_worked = [t \in ThreadIds |-> 0]
    /\ team = 0
    /\ tpc = [t \in ThreadIds |-> "none"]
    /\ cur_job = [t \in ThreadIds |-> 0]
    /\ thread_scheduled = [t \in ThreadIds |-> 0]
    /\ sched_iter = [t \in ThreadIds |-> 0]
    /\ thread_logs = [t \in ThreadIds |-> << >>]
    /\ fa = NoFind

SpecClamp == InitClamp /\ [][MainRepetition]_vars

(* ---------------------------------------------------------------------- *)
(* find_available_time on its own, one loop iteration per step            *)
(* ---------------------------------------------------------------------- *)
\* one machine with up to MaxCommitted other operations, or one job on two
\* machines
FindShapes == { <<j, 1>> : j \in 1 .. MaxCommitted + 1 } \cup { <<1, 2>> }

\* any set of committed operations; the last operation of the last job is
\* unscheduled and is the one a slot is searched for
InitFind ==
    /\ prog = "find"
    /\ \E s \in FindShapes :
          /\ num_jobs = s[1]
          /\ num_machines = s[2]
          /\ jobs \in [0 .. s[1] - 1 -> [0 .. s[2] - 1 ->
                 [machine : 0 .. s[2] - 1, duration : 0 .. FindMaxDur,
                  start_time : {-1} \cup (0 .. MaxStart)]]]
          /\ jobs[s[1] - 1][s[2] - 1].start_time = -1
    /\ \E e \in 0 .. MaxStart :
          fa = [pc |-> "call1", job |-> num_jobs - 1, op |-> num_operations - 1,
                machine |-> jobs[num_jobs - 1][num_operations - 1].machine,
                duration |-> jobs[num_jobs - 1][num_operations - 1].duration,
                earliest_start |-> e, start_time |-> e, first |-> -1]
    /\ num_threads = 0
    /\ i = 0
    /\ mpc = "find"
    /\ ret = -1
    /\ prev_start = Starts(jobs)
    /\ scheduled_ops = [j \in Jobs |-> 0]
    /\ earliest_starts = [j \in Jobs |-> 0]
    /\ scheduled_count = 0
    /\ log_entries = << >>
    /\ assigned_count = 0
    /\ iteration_count = 0
    /\ op_assigned = [j \in Jobs |-> [o \in OpIds |-> 0]]
    /\ thread_worked = [t \in ThreadIds |-> 0]
    /\ team = 0
    /\ tpc = [t \in ThreadIds |-> "none"]
    /\ cur_job = [t \in ThreadIds |-> 0]
    /\ thread_scheduled = [t \in ThreadIds |-> 0]
    /\ sched_iter = [t \in ThreadIds |-> 0]
    /\ thread_logs = [t \in ThreadIds |-> << >>]

InCall == fa.pc \in {"call1", "call2"}

driverVars == << prog, num_jobs, num_machines, num_threads, i, mpc, ret,
                 prev_start, scheduled_ops, earliest_starts, scheduled_count,
                 log_entries, assigned_count, iteration_count, op_assigned,
                 thread_worked, team, tpc, cur_job, thread_scheduled,
                 sched_iter, thread_logs >>

\* a scan that found a conflict: "start_time = earliest_possible"
FindRetry ==
    /\ InCall
    /\ Conflicts(jobs, fa.machine, fa.start_time, fa.duration) # {}
    /\ fa' = [fa EXCEPT !.start_time =
                 NextTry(jobs, fa.machine, fa.start_time, fa.duration)]
    /\ UNCHANGED << driverVars, jobs >>

\* a scan that found no conflict: "return start_time"
FindReturn ==
    /\ InCall
    /\ Conflicts(jobs, fa.machine, fa.start_time, fa.duration) = {}
    /\ fa' = [fa EXCEPT !.pc = IF fa.pc = "call1" THEN "ret1" ELSE "ret2"]
    /\ UNCHANGED << driverVars, jobs >>

\* the caller commits the returned slot and searches again with the same
\* arguments
FindCommitAndCallAgain ==
    /\ fa.pc = "ret1"
    /\ jobs' = [jobs EXCEPT ![fa.job][fa.op].start_time = fa.start_time]
    /\ fa' = [fa EXCEPT !.pc = "call2", !.first = fa.start_time,
                        !.start_time = fa.earliest_start]
    /\ UNCHANGED driverVars

NextFind == FindRetry \/ FindReturn \/ FindCommitAndCallAgain

SpecFind == InitFind /\ [][NextFind]_vars

SpecFindFair == InitFind /\ [][NextFind]_vars /\ WF_vars(NextFind)

(* ====================================================================== *)
(* Properties                                                             *)
(* ====================================================================== *)
AllOps == Jobs \X OpIds

Committed(p) == jobs[p[1]][p[2]].start_time # -1

StartOf(p) == jobs[p[1]][p[2]].start_time

DurOf(p) == jobs[p[1]][p[2]].duration

MachOf(p) == jobs[p[1]][p[2]].machine

\* C1: machine exclusivity. In every reachable state of either driver, with
\* any thread count, any order of entry into the critical region and any
\* team size, no two committed operations bound to the same machine overlap:
\* there is no pair with start1 < start2 + duration2 and
\* start2 < start1 + duration1.
C1_MachineExclusivity ==
    \A p, q \in AllOps :
        (p # q /\ Committed(p) /\ Committed(q) /\ MachOf(p) = MachOf(q))
        => ~(StartOf(p) < StartOf(q) + DurOf(q) /\ StartOf(q) < StartOf(p) + DurOf(p))

\* the parallel program with two threads in the region has committed two
\* operations of positive duration on one machine, the second one pushed
\* behind the first
C1_Witness ==
    /\ prog = "parallel"
    /\ team >= 2
    /\ \E p, q \in AllOps :
          /\ p[1] # q[1]
          /\ Committed(p) /\ Committed(q)
          /\ MachOf(p) = MachOf(q)
          /\ DurOf(p) > 0 /\ DurOf(q) > 0
          /\ StartOf(q) = StartOf(p) + DurOf(p)
          /\ earliest_starts[q[1]] = StartOf(q) + DurOf(q)
          /\ q[2] = 0

\* C2: job precedence. In every reachable state of either driver (the
\* fallback of the coordinator included), operation i+1 of a job is committed
\* only if operation i is, and then
\* op[i].start_time + op[i].duration <= op[i+1].start_time.
C2_JobPrecedence ==
    \A j \in Jobs : \A o \in OpIds :
        (o + 1 \in OpIds /\ Committed(<<j, o + 1>>))
        => /\ Committed(<<j, o>>)
           /\ StartOf(<<j, o>>) + DurOf(<<j, o>>) <= StartOf(<<j, o + 1>>)

\* the fallback has run and committed, for thread 0's trace, the second
\* operation of a job that another thread owns, behind a first operation of
\* positive duration
C2_Witness ==
    /\ mpc = "verify"
    /\ \E j \in Jobs :
          /\ op_assigned[j][0] # 0
          /\ num_operations >= 2
          /\ Committed(<<j, 1>>)
          /\ DurOf(<<j, 0>>) > 0
          /\ \E k \in 1 .. Len(thread_logs[0]) : thread_logs[0][k] = <<j, 1>>

\* C3: complete schedule at termination. When a run of either driver has
\* returned, every operation has start_time >= 0.
C3_CompleteAtReturn ==
    mpc = "returned" => \A p \in AllOps : StartOf(p) >= 0

\* C4: parallel determinism. A run of the coordinator on the reset Problem
\* ends with the start times the previous run with the same thread count
\* ended with.
C4_ParallelDeterminism ==
    (prog = "parallel" /\ mpc = "returned" /\ i >= 1)
    => Starts(jobs) = prev_start

\* C5: sequential determinism across repetitions. A repetition of the
\* sequential scheduler, after the reset, ends with the start times and the
\* makespan the previous repetition ended with.
C5_SequentialDeterminism ==
    (prog = "sequential" /\ mpc = "returned" /\ i >= 1)
    => /\ Starts(jobs) = prev_start
       /\ Makespan(Starts(jobs)) = Makespan(prev_start)

\* a later repetition of the sequential scheduler has returned with an
\* operation that had to wait
C5_Witness ==
    /\ prog = "sequential"
    /\ mpc = "returned"
    /\ i >= 1
    /\ scheduled_count = total_ops
    /\ \E p \in AllOps : StartOf(p) > 0 /\ p[2] = 0

FindReturned == fa.pc \in {"ret1", "ret2"}

\* C6: the slot find_available_time returns starts at or after
\* earliest_start and overlaps no operation committed on the machine, under
\* the test (s < other.end and s + duration > other.start), for every
\* duration >= 0.
C6_FindFeasible ==
    FindReturned
    => /\ fa.start_time >= fa.earliest_start
       /\ \A p \in AllOps :
             (Committed(p) /\ MachOf(p) = fa.machine)
             => ~(fa.start_time < StartOf(p) + DurOf(p)
                  /\ fa.start_time + fa.duration > StartOf(p))

\* a search for a slot of duration 0 has returned a later start than asked
C6_Witness ==
    /\ fa.pc = "ret1"
    /\ fa.duration = 0
    /\ fa.start_time > fa.earliest_start

\* C7: the slot returned is the earliest feasible one: every start from
\* earliest_start up to the returned one (excluded) overlaps an operation
\* committed on the machine.
C7_FindEarliest ==
    FindReturned
    => \A s \in fa.earliest_start .. fa.start_time - 1 :
          \E p \in AllOps :
             /\ Committed(p)
             /\ MachOf(p) = fa.machine
             /\ s < StartOf(p) + DurOf(p)
             /\ s + fa.duration > StartOf(p)

\* a search has returned a start at least two past earliest_start, right
\* behind a committed operation that starts after earliest_start
C7_Witness ==
    /\ fa.pc = "ret1"
    /\ fa.start_time >= fa.earliest_start + 2
    /\ \E p \in AllOps :
          /\ Committed(p)
          /\ MachOf(p) = fa.machine
          /\ StartOf(p) > fa.earliest_start
          /\ StartOf(p) + DurOf(p) = fa.start_time

\* C8: after the slot s returned for (m, d, e) is committed, the search
\* with the same arguments returns s2 with [s2, s2+d) not overlapping
\* [s, s+d); for d > 0, s2 >= s + d.
C8_FindAgain ==
    fa.pc = "ret2"
    => /\ ~(fa.start_time < fa.first + fa.duration
            /\ fa.start_time + fa.duration > fa.first)
       /\ fa.duration > 0 => fa.start_time >= fa.first + fa.duration
       /\ StartOf(<<fa.job, fa.op>>) = fa.first

\* the second search has returned, behind the slot committed after the first
C8_Witness ==
    /\ fa.pc = "ret2"
    /\ fa.duration > 0
    /\ fa.first > fa.earliest_start
    /\ fa.start_time >= fa.first + fa.duration

\* the largest end time of an operation committed on the machine, or
\* earliest_start if that is later
FindBound ==
    Max({fa.earliest_start} \cup
        { StartOf(p) + DurOf(p) :
            p \in { q \in AllOps : Committed(q) /\ MachOf(q) = fa.machine } })

\* C9: find_available_time terminates: every retry strictly increases the
\* candidate start, the search returns, and the value returned is at most the
\* larger of earliest_start and the largest end time of an operation
\* committed on the machine.
C9_FindTerminates ==
    /\ [][(InCall /\ fa'.pc = fa.pc) => fa'.start_time > fa.start_time]_vars
    /\ [](FindReturned => fa.start_time <= FindBound)
    /\ <>(fa.pc = "ret2")

\* a search among committed operations of duration 0 has returned after a
\* retry
C9_Witness ==
    /\ fa.pc = "ret2"
    /\ fa.start_time > fa.earliest_start
    /\ fa.start_time = FindBound
    /\ \E p \in AllOps :
          Committed(p) /\ MachOf(p) = fa.machine /\ DurOf(p) = 0
          /\ p # <<fa.job, fa.op>>

NoOverlap ==
    \A p, q \in AllOps :
        (p # q /\ Committed(p) /\ Committed(q) /\ MachOf(p) = MachOf(q))
        => ~(StartOf(p) < StartOf(q) + DurOf(q) /\ StartOf(q) < StartOf(p) + DurOf(p))

Precedence ==
    \A j \in Jobs : \A o \in OpIds :
        o + 1 \in OpIds
        => StartOf(<<j, o>>) + DurOf(<<j, o>>) <= StartOf(<<j, o + 1>>)

C12_ClampedToTotalOps ==
    mpc = "coord" => effective_num_threads <= total_ops

\* C12: thread-count clamping. The thread count handed to the coordinator is
\* never greater than total_ops when total_ops >= 1, and is 1 when
\* total_ops = 0; every job's owner is below it.
C12_ClampedToTotalOpsOrOne ==
    mpc = "coord"
    => /\ total_ops >= 1 => effective_num_threads <= total_ops
       /\ total_ops = 0 => effective_num_threads = 1
       /\ \A j \in Jobs : op_assigned[j][0] < effective_num_threads

\* the coordinator is entered with fewer threads than requested, as many as
\* there are operations, and the last of them owns a job
C12_Witness ==
    /\ mpc = "coord"
    /\ total_ops >= 2
    /\ num_threads > total_ops
    /\ effective_num_threads = total_ops
    /\ \E j \in Jobs : op_assigned[j][0] = effective_num_threads - 1

\* job0 = [(machine0, dur3), (machine1, dur2)],
\* job1 = [(machine1, dur2), (machine0, dur4)]
IsExample ==
    /\ prog = "sequential"
    /\ num_jobs = 2 /\ num_machines = 2
    /\ MachOf(<<0, 0>>) = 0 /\ DurOf(<<0, 0>>) = 3
    /\ MachOf(<<0, 1>>) = 1 /\ DurOf(<<0, 1>>) = 2
    /\ MachOf(<<1, 0>>) = 1 /\ DurOf(<<1, 0>>) = 2
    /\ MachOf(<<1, 1>>) = 0 /\ DurOf(<<1, 1>>) = 4

\* C13: end-to-end example. On the Problem with job0 = [(machine0, dur3),
\* (machine1, dur2)] and job1 = [(machine1, dur2), (machine0, dur4)] the
\* sequential scheduler returns with job0-op0 at 0, job0-op1 at 3, job1-op0
\* at 0, job1-op1 at 3, and the makespan written is 7.
C13_EndToEndExample ==
    (IsExample /\ mpc \in {"returned", "saved"})
    => /\ StartOf(<<0, 0>>) = 0
       /\ StartOf(<<0, 1>>) = 3
       /\ StartOf(<<1, 0>>) = 0
       /\ StartOf(<<1, 1>>) = 3
       /\ Makespan(Starts(jobs)) = 7

\* the sequential program has run its repetitions on the example and is
\* about to write the result
C13_Witness ==
    /\ IsExample
    /\ mpc = "saved"
    /\ scheduled_count = 4
    /\ Len(log_entries) = 4

\* C14: the sequential scheduler never stops on a partial schedule. Whenever
\* the loop of schedule_jobs_sequential runs with scheduled_count < total_ops,
\* the selection scan finds an eligible job (earliest_job # -1), and the
\* scheduler never returns with scheduled_count < total_ops.
C14_NoPartialStop ==
    /\ (mpc = "seq" /\ scheduled_count < total_ops) => earliest_job # -1
    /\ (prog = "sequential" /\ mpc = "returned") => scheduled_count = total_ops

\* C15: the iteration cap is never the exit reason. The coordinator never
\* stands at its loop test with iteration_count at max_iterations and
\* assigned_count < total_ops, and never returns 0, whether or not the
\* fallback has run.
C15_CapNeverExit ==
    /\ (prog = "parallel" /\ mpc = "coord" /\ assigned_count < total_ops)
       => iteration_count < max_iterations
    /\ (prog = "parallel" /\ mpc = "returned") => ret = 1

\* a step of the sequential loop that finds a job, with the trace full
SeqStepOnFullLog ==
    /\ mpc = "seq"
    /\ scheduled_count < total_ops
    /\ earliest_job # -1
    /\ Len(log_entries) = MAX_LOG_ENTRIES

\* thread t is at an unfinished job it owns inside the critical region, with
\* its trace full
ParStepOnFullLog(t) ==
    /\ mpc = "region"
    /\ tpc[t] = "crit"
    /\ cur_job[t] < num_jobs
    /\ op_assigned[cur_job[t]][0] = t
    /\ scheduled_ops[cur_job[t]] < num_operations
    /\ Len(thread_logs[t]) = MAX_LOG_ENTRIES

\* C16: trace overflow is harmless. A trace never holds more than
\* MAX_LOG_ENTRIES entries; a scheduling step of either driver taken with its
\* trace full commits the operation at the slot the search returns and
\* advances the counters, and leaves the trace as it is.
C16_TraceOverflow ==
    /\ [](/\ Len(log_entries) <= MAX_LOG_ENTRIES
          /\ \A t \in ThreadIds : Len(thread_logs[t]) <= MAX_LOG_ENTRIES)
    /\ [][SeqStepOnFullLog
          => LET job == earliest_job
                 op == scheduled_ops[job]
             IN  /\ log_entries' = log_entries
                 /\ scheduled_count' = scheduled_count + 1
                 /\ scheduled_ops' = [scheduled_ops EXCEPT ![job] = op + 1]
                 /\ jobs'[job][op].start_time =
                       find_available_time(jobs, jobs[job][op].machine,
                                           jobs[job][op].duration,
                                           earliest_starts[job])]_vars
    /\ [][\A t \in ThreadIds :
            ParStepOnFullLog(t)
            => LET job == cur_job[t]
                   op == scheduled_ops[job]
               IN  /\ thread_logs' = thread_logs
                   /\ assigned_count' = assigned_count + 1
                   /\ scheduled_ops' = [scheduled_ops EXCEPT ![job] = op + 1]
                   /\ sched_iter'[t] = sched_iter[t] + 1
                   /\ thread_scheduled'[t] = 1
                   /\ jobs'[job][op].start_time =
                         find_available_time(jobs, jobs[job][op].machine,
                                             jobs[job][op].duration,
                                             earliest_starts[job])
                   /\ earliest_starts'[job] =
                         jobs'[job][op].start_time + jobs[job][op].duration]_vars

\* the last repetition of the sequential program has committed an operation
\* although the trace was full before the repetition began
C16_Witness ==
    /\ prog = "sequential"
    /\ i = num_repetitions - 1
    /\ mpc = "seq"
    /\ total_ops >= MAX_LOG_ENTRIES
    /\ scheduled_count >= 1
    /\ Len(log_entries) = MAX_LOG_ENTRIES
    /\ \E p \in AllOps : StartOf(p) > 0

\* entries in the traces of all threads
ThreadLogTotal == Sum([t \in ThreadIds |-> Len(thread_logs[t])], MAX_THREADS)

\* C17: only the last run's trace is kept. When the repetition loop is over
\* and the trace is saved, a trace that stayed below capacity holds one entry
\* per operation of the final repetition and nothing else: as many entries
\* as the run committed operations, no operation twice.
C17_LastRunTraceOnly ==
    mpc = "saved"
    => /\ (prog = "sequential" /\ scheduled_count <= MAX_LOG_ENTRIES)
          => /\ Len(log_entries) = scheduled_count
             /\ \A k, l \in 1 .. Len(log_entries) :
                   log_entries[k] = log_entries[l] => k = l
       /\ (prog = "parallel" /\ assigned_count <= MAX_LOG_ENTRIES)
          => /\ ThreadLogTotal = assigned_count
             /\ \A t \in ThreadIds : \A k, l \in 1 .. Len(thread_logs[t]) :
                   thread_logs[t][k] = thread_logs[t][l] => k = l

\* jobs that still have unscheduled operations
Eligible == { j \in Jobs : scheduled_ops[j] < num_operations }

\* C18: sequential selection rule. In every iteration of the loop the job
\* selected still has unscheduled operations, no such job has a smaller
\* earliest start, and none with the same earliest start has a lower index;
\* the iteration commits that job's next unscheduled operation and no other.
C18_SelectionRule ==
    /\ []((mpc = "seq" /\ scheduled_count < total_ops)
          => /\ earliest_job \in Eligible
             /\ \A j \in Eligible :
                   /\ earliest_starts[earliest_job] <= earliest_starts[j]
                   /\ earliest_starts[j] = earliest_starts[earliest_job]
                      => earliest_job <= j)
    /\ [][(mpc = "seq" /\ scheduled_count < total_ops)
          => /\ earliest_job \in Eligible
             /\ jobs'[earliest_job][scheduled_ops[earliest_job]].start_time >= 0
             /\ \A p \in AllOps :
                   p # <<earliest_job, scheduled_ops[earliest_job]>>
                   => jobs'[p[1]][p[2]] = jobs[p[1]][p[2]]]_vars

\* threads inside the critical region
InCrit == { t \in ThreadIds : tpc[t] = "crit" }

\* thread t has a slot from find_available_time that it has not written yet
Pending(t) == fa[t].pc = "found"

\* C19: mutual exclusion and atomic decisions. At most one thread is inside
\* the critical region; a thread is inside it from its call of
\* find_available_time to its write of start_time, and the step that follows
\* the call is that write, made on the tables as the search saw them; no
\* step of a round changes the Schedule, scheduled_ops, earliest_starts or
\* assigned_count except the write of a thread inside the region.
C19_MutualExclusion ==
    /\ [](Cardinality(InCrit) <= 1)
    /\ [](\A t \in ThreadIds : Pending(t) => tpc[t] = "crit")
    /\ [][\A t \in ThreadIds :
            Pending(t)
            => /\ fa'[t].pc = "off"
               /\ jobs' = [jobs EXCEPT ![fa[t].job][fa[t].op].start_time =
                                          fa[t].start_time]
               /\ fa[t].op = scheduled_ops[fa[t].job]
               /\ fa[t].start_time =
                     find_available_time(jobs,
                                         jobs[fa[t].job][fa[t].op].machine,
                                         jobs[fa[t].job][fa[t].op].duration,
                                         earliest_starts[fa[t].job])]_vars
    /\ [][(/\ mpc = "region"
           /\ mpc' = "region"
           /\ << jobs, scheduled_ops, earliest_starts, assigned_count >>' #
              << jobs, scheduled_ops, earliest_starts, assigned_count >>)
          => \E t \in InCrit : Pending(t) /\ ~Pending(t)']_vars

\* a thread holds a slot it has not written yet, later than its job's
\* earliest start, after another thread committed in this round and left
C19_Witness ==
    \E t, u \in ThreadIds :
        /\ t # u
        /\ Pending(t)
        /\ fa[t].start_time > earliest_starts[fa[t].job]
        /\ tpc[u] = "done"
        /\ sched_iter[u] >= 1
        /\ assigned_count >= 1

\* the entries thread t has appended to its trace in the current round
ThisRound(t) ==
    SubSeq(thread_logs[t], Len(thread_logs[t]) - sched_iter[t] + 1,
           Len(thread_logs[t]))

RoundJobs(t) == { ThisRound(t)[k][1] : k \in 1 .. Len(ThisRound(t)) }

\* C20: round structure. During a round, what a thread has committed so far
\* are operations of jobs it owns, in ascending job index, one per job, each
\* the job's next operation; when the thread has left the critical region
\* every job it owns is either advanced in this round or was finished before;
\* a step of the region advances at most the one job the thread is at, by
\* one operation, and moves the thread to the next job index.
C20_RoundStructure ==
    /\ [](mpc = "region"
          => \A t \in ThreadIds :
                /\ sched_iter[t] <= Len(thread_logs[t])
                /\ \A k \in 1 .. Len(ThisRound(t)) :
                      LET job == ThisRound(t)[k][1]
                          op == ThisRound(t)[k][2]
                      IN  /\ op_assigned[job][0] = t
                          /\ job < cur_job[t]
                          /\ scheduled_ops[job] = op + 1
                          /\ k > 1 => ThisRound(t)[k - 1][1] < job
                /\ tpc[t] = "done"
                   => \A job \in Jobs :
                         op_assigned[job][0] = t
                         => \/ job \in RoundJobs(t)
                            \/ scheduled_ops[job] = num_operations)
    /\ [][(mpc = "region" /\ mpc' = "region")
          => \A t \in ThreadIds :
                (tpc[t] = "crit" /\ tpc'[t] = "crit")
                => /\ cur_job'[t] = cur_job[t] + 1
                   /\ \A job \in Jobs :
                         /\ job # cur_job[t]
                            => scheduled_ops'[job] = scheduled_ops[job]
                         /\ scheduled_ops'[job] <= scheduled_ops[job] + 1]_vars

\* a thread that owns two jobs has left the critical region after advancing
\* both, the second of them to its second operation
C20_Witness ==
    /\ mpc = "region"
    /\ \E t \in ThreadIds :
          /\ tpc[t] = "done"
          /\ Len(ThisRound(t)) = 2
          /\ ThisRound(t)[2][2] = 1

\* C21: fork-join per round. The coordinator leaves a round only when every
\* thread of the round has finished its body; the reduction starts a round
\* at 0 and grows with every commit of the round by one, so that the value
\* the coordinator reads is the number of operations the round committed;
\* between rounds and at return thread_worked[t] is set for exactly the
\* threads that have committed an operation in the run.
C21_ForkJoin ==
    /\ [][(mpc = "region" /\ mpc' # "region")
          => \A t \in 0 .. effective_num_threads - 1 : tpc[t] = "done"]_vars
    /\ [][(mpc = "coord" /\ mpc' = "region")
          => scheduled_this_iteration' = 0]_vars
    /\ [][(mpc = "region" /\ mpc' = "region")
          => scheduled_this_iteration' - scheduled_this_iteration =
             assigned_count' - assigned_count]_vars
    /\ []((prog = "parallel" /\ mpc \in {"coord", "verify", "returned"})
          => \A t \in ThreadIds :
                thread_worked[t] = 1 <=> Len(thread_logs[t]) >= 1)

\* a round has ended in which one thread committed and another, which owns
\* no job, passed through the region without committing
C21_Witness ==
    /\ mpc = "coord"
    /\ iteration_count >= 1
    /\ scheduled_this_iteration >= 1
    /\ \E t, u \in 0 .. effective_num_threads - 1 :
          /\ thread_worked[t] = 1
          /\ thread_worked[u] = 0
          /\ sched_iter[u] = 0
          /\ sched_iter[t] >= 1

\* the coordinator is running or has returned
InCoordinator == prog = "parallel" /\ mpc \in {"coord", "region", "verify", "returned"}

Unfinished == { j \in Jobs : scheduled_ops[j] < num_operations }

Remaining == { p \in AllOps : p[2] >= scheduled_ops[p[1]] }

\* the remaining operations in job-major, operation-minor order
RemainingInOrder ==
    [k \in 1 .. Cardinality(Remaining) |->
        CHOOSE p \in Remaining :
            Cardinality({ q \in Remaining :
                            q[1] < p[1] \/ (q[1] = p[1] /\ q[2] <= p[2]) }) = k]

\* no thread of the run has its progressed flag false
NoIdleThread == \A t \in 0 .. effective_num_threads - 1 : thread_worked[t] = 1

\* C23: deadlock handling. At the end of a round the coordinator declares a
\* deadlock exactly when the round committed nothing, operations remain and
\* no thread has thread_worked = 0; the fallback then commits every
\* remaining operation, in job-major, operation-minor order (as the trace of
\* thread 0 shows), the first of them at the slot find_available_time
\* returns, so that assigned_count = total_ops, and the loop is left without
\* another round.
C23_DeadlockHandling ==
    /\ [][(mpc = "region" /\ mpc' # "region")
          => /\ mpc' = "verify"
                <=> /\ scheduled_this_iteration = 0
                    /\ assigned_count < total_ops
                    /\ NoIdleThread
             /\ mpc' = "verify"
                => /\ assigned_count' = total_ops
                   /\ \A j \in Jobs : scheduled_ops'[j] = num_operations
                   /\ \A p \in AllOps : jobs'[p[1]][p[2]].start_time >= 0
                   /\ \A p \in AllOps \ Remaining :
                         jobs'[p[1]][p[2]] = jobs[p[1]][p[2]]
                   /\ Len(thread_logs[0]) + Cardinality(Remaining)
                         <= MAX_LOG_ENTRIES
                      => thread_logs'[0] = thread_logs[0] \o RemainingInOrder
                   /\ LET p == RemainingInOrder[1]
                      IN  jobs'[p[1]][p[2]].start_time =
                             find_available_time(jobs, MachOf(p), DurOf(p),
                                                 earliest_starts[p[1]])]_vars
    /\ [][mpc = "verify"
          => /\ mpc' = "returned"
             /\ ret' = 1
             /\ iteration_count' = iteration_count]_vars

\* the fallback has committed the last operations of two jobs, after a run
\* in which every thread had committed something
C23_Witness ==
    /\ mpc = "verify"
    /\ NoIdleThread
    /\ effective_num_threads >= 2
    /\ \E k \in 2 .. Len(thread_logs[0]) :
          /\ thread_logs[0][k - 1][1] < thread_logs[0][k][1]
          /\ op_assigned[thread_logs[0][k - 1][1]][0] # 0
          /\ op_assigned[thread_logs[0][k][1]][0] # 0

\* the threads of the run whose progressed flag is false
IdleThreads == { t \in 0 .. effective_num_threads - 1 : thread_worked[t] = 0 }

\* C24: stall reassignment. At the end of a round that committed nothing
\* while operations remain and some thread has thread_worked = 0, every
\* unfinished job is handed, all its operations together, to the idle thread
\* of least index (each search that finds an idle thread makes exactly one
\* reassignment and stops); finished jobs keep their owner, the flags and
\* the schedule are untouched, and no deadlock is declared.
C24_StallReassignment ==
    [][(/\ mpc = "region" /\ mpc' # "region"
        /\ scheduled_this_iteration = 0
        /\ assigned_count < total_ops
        /\ IdleThreads # {})
       => /\ \A j \in Unfinished : \A o \in OpIds :
                /\ op_assigned'[j][o] \in IdleThreads
                /\ \A t \in IdleThreads : op_assigned'[j][o] <= t
          /\ \A j \in Jobs \ Unfinished : op_assigned'[j] = op_assigned[j]
          /\ thread_worked' = thread_worked
          /\ jobs' = jobs
          /\ assigned_count' = assigned_count
          /\ mpc' = "coord"]_vars

\* two unfinished jobs have been handed to the first of two idle threads,
\* one of them away from its round-robin owner
C24_Witness ==
    /\ mpc = "coord"
    /\ Cardinality(IdleThreads) >= 2
    /\ \E j1, j2 \in Unfinished :
          /\ j1 # j2
          /\ \A o \in OpIds : /\ op_assigned[j1][o] \in IdleThreads
                              /\ op_assigned[j2][o] = op_assigned[j1][o]
          /\ \A t \in IdleThreads : op_assigned[j1][0] <= t
          /\ op_assigned[j2][0] # j2 % effective_num_threads

\* a scheduler is running or has just returned, its locals still in place
InDriver == (prog = "sequential" /\ mpc \in {"seq", "returned"}) \/ InCoordinator

\* the driver's global count: scheduled_count / assigned_count
GlobalCount == IF prog = "sequential" THEN scheduled_count ELSE assigned_count

\* C25: counter consistency. Between commits, in either driver, the committed
\* operations of each job are exactly 0 .. scheduled_ops[job] - 1, the
\* global count is the sum of scheduled_ops and the number of operations
\* with start_time # -1, and a job with a committed and a remaining
\* operation has earliest_starts[job] at the finish of its last committed one.
C25_CounterConsistency ==
    InDriver
    => /\ \A p \in AllOps : StartOf(p) # -1 <=> p[2] < scheduled_ops[p[1]]
       /\ GlobalCount = Sum(scheduled_ops, num_jobs)
       /\ GlobalCount = Cardinality({ p \in AllOps : StartOf(p) # -1 })
       /\ \A j \in Jobs :
             (1 <= scheduled_ops[j] /\ scheduled_ops[j] < num_operations)
             => earliest_starts[j] =
                   StartOf(<< j, scheduled_ops[j] - 1 >>)
                   + DurOf(<< j, scheduled_ops[j] - 1 >>)

\* either driver in the middle of a later repetition: a job partly
\* committed, with a positive earliest start
C25_PartWitness(p) ==
    /\ prog = p
    /\ InDriver
    /\ i >= 1
    /\ \E j \in Jobs :
          /\ 1 <= scheduled_ops[j] /\ scheduled_ops[j] < num_operations
          /\ earliest_starts[j] > 0

C25_Witness == C25_PartWitness("sequential")

C25_WitnessParallel == C25_PartWitness("parallel")

\* the fields of the Problem that scheduling only reads
Definition(js) ==
    [j \in DOMAIN js |-> [o \in DOMAIN js[j] |->
        << js[j][o].machine, js[j][o].duration >>]]

\* everything but the activation records of find_available_time
allButFind == << problemShape, jobs, i, mpc, ret, prev_start, scheduled_ops,
                 earliest_starts, seqLocals, parLocals >>

\* a call of find_available_time is returning
FindStep == \E t \in ThreadIds : fa[t].pc = "off" /\ fa'[t].pc = "found"

\* C26: frame of scheduling. No step changes a machine id, a duration or the
\* job and machine counts; a call of find_available_time changes nothing
\* but its own result; between the reset and the return of a run a
\* start_time other than -1 is never written again; and an operation that
\* is committed gets the slot find_available_time gives for the schedule
\* and the job's earliest start, the operation being the next one of its
\* job (and, in the sequential driver, of the selected job), whatever the
\* traces hold.
C26_Frame ==
    /\ [][/\ Definition(jobs') = Definition(jobs)
          /\ num_jobs' = num_jobs
          /\ num_machines' = num_machines]_vars
    /\ [][FindStep => UNCHANGED allButFind]_vars
    /\ [][mpc # "loop"
          => \A p \in AllOps : StartOf(p) # -1
                => jobs'[p[1]][p[2]].start_time = StartOf(p)]_vars
    /\ [][(mpc \in {"seq", "region"} /\ mpc' = mpc)
          => \A p \in AllOps :
                (StartOf(p) = -1 /\ jobs'[p[1]][p[2]].start_time # -1)
                => /\ p[2] = scheduled_ops[p[1]]
                   /\ prog = "sequential" => p[1] = earliest_job
                   /\ jobs'[p[1]][p[2]].start_time =
                         find_available_time(jobs, MachOf(p), DurOf(p),
                                             earliest_starts[p[1]])]_vars

\* in a repetition after the first, whose trace already holds an entry, an
\* operation is committed behind another one
C26_Witness ==
    /\ i >= 1
    /\ mpc \in {"seq", "region"}
    /\ \/ prog = "sequential" /\ Len(log_entries) >= 1
       \/ prog = "parallel" /\ ThreadLogTotal >= 1
    /\ \E p \in AllOps : StartOf(p) > 0

\* C27: with every region running all num_threads threads, each round that
\* starts with assigned_count < total_ops commits at least one operation:
\* at the join the reduction is positive, no job changes owner (every job
\* stays with thread job mod T) and the fallback is not entered.
C27_NoStallWithFullTeams ==
    /\ [][(mpc = "coord" /\ mpc' = "region") => assigned_count < total_ops]_vars
    /\ [][(mpc = "region" /\ mpc' # "region")
          => /\ scheduled_this_iteration >= 1
             /\ op_assigned' = op_assigned
             /\ mpc' = "coord"]_vars
    /\ [](InCoordinator
          => /\ mpc # "verify"
             /\ \A j \in Jobs : \A o \in OpIds :
                   op_assigned[j][o] = j % effective_num_threads)

\* the join of a later round in which two threads have committed
C27_Witness ==
    /\ mpc = "region"
    /\ team = effective_num_threads
    /\ iteration_count >= 2
    /\ \A t \in 0 .. team - 1 : tpc[t] = "done"
    /\ \E t1, t2 \in 0 .. team - 1 :
          t1 # t2 /\ sched_iter[t1] >= 1 /\ sched_iter[t2] >= 1

\* the rounds started so far
Round == iteration_count

\* between rounds every job has Round committed operations, and at any
\* moment two jobs differ by at most one committed operation
LockStep ==
    /\ mpc = "coord" => \A j \in Jobs : scheduled_ops[j] = Round
    /\ \A j1, j2 \in Jobs : scheduled_ops[j1] - scheduled_ops[j2] \in -1 .. 1

TotalDuration ==
    Sum([j \in Jobs |-> Sum([o \in OpIds |-> jobs[j][o].duration],
                            num_operations)], num_jobs)

\* operation q, in schedule js, is the job's previous operation or an
\* operation of the same machine, and finishes at time s
Explains(js, q, p, s) ==
    /\ q # p
    /\ js[q[1]][q[2]].start_time # -1
    /\ js[q[1]][q[2]].start_time + js[q[1]][q[2]].duration = s
    /\ \/ q[1] = p[1] /\ q[2] = p[2] - 1
       \/ js[q[1]][q[2]].machine = js[p[1]][p[2]].machine

\* q precedes p in job-major, operation-minor order
JobMajorBefore(q, p) == q[1] < p[1] \/ (q[1] = p[1] /\ q[2] < p[2])

\* the operations a step commits start at 0 or are explained by an
\* operation committed before them
CommitsExplained ==
    \A p \in AllOps :
        (StartOf(p) = -1 /\ jobs'[p[1]][p[2]].start_time # -1)
        => \/ jobs'[p[1]][p[2]].start_time = 0
           \/ \E q \in AllOps :
                 /\ Explains(jobs', q, p, jobs'[p[1]][p[2]].start_time)
                 /\ (StartOf(q) # -1 \/ JobMajorBefore(q, p))

\* C29: no unexplained idle start. An operation is committed at 0 or at the
\* finish time of an operation committed before it in the same run (its
\* job's previous operation or one on its machine): by a scheduling step at
\* the finish of one committed already, by the fallback also at the finish
\* of one the fallback committed before it. So no committed operation
\* finishes later than the sum of all durations.
C29_NoIdleStart ==
    /\ [][(mpc \in {"seq", "region"}) => CommitsExplained]_vars
    /\ [](InDriver
          => \A p \in AllOps :
                StartOf(p) # -1
                => /\ \/ StartOf(p) = 0
                      \/ \E q \in AllOps : Explains(jobs, q, p, StartOf(p))
                   /\ StartOf(p) + DurOf(p) <= TotalDuration)

\* either driver has committed an operation behind an operation of another
\* job on its machine
C29_PartWitness(pr) ==
    /\ prog = pr
    /\ InDriver
    /\ \E p, q \in AllOps :
          /\ StartOf(p) > 0
          /\ q[1] # p[1]
          /\ Explains(jobs, q, p, StartOf(p))
          /\ ~ \E r \in AllOps : r[1] = p[1] /\ Explains(jobs, r, p, StartOf(p))

C29_Witness == C29_PartWitness("parallel")

C29_WitnessSequential == C29_PartWitness("sequential")

====
